---- MODULE Spec2Model ----
(***************************************************************************)
(* Verification model of the prefix-search crawler of IvyHomes-Task:       *)
(* BaseExtractor (extract_names, _dfs, get_suggestions, checkpointing),    *)
(* AutocompleteAPIClient.get_autocomplete_suggestions and RateLimiter.     *)
(* A Python str is a sequence of one-character strings, so that            *)
(* concatenation, length and the space filters are computed, not assumed.  *)
(***************************************************************************)
EXTENDS Naturals, Integers, Sequences, FiniteSets, TLC

(* ------------------------------ bounds -------------------------------- *)

\* _dfs explores prefixes of length <= 10 (base_extractor.py:182); scaled.
MaxPrefixLength == 2

\* get_max_results() is 10 / 12 / 15 for v1 / v2 / v3; scaled page cap.
PageCap == 1

\* The service's vocabulary holds at most this many names.
MaxVocab == 2

\* get_suggestions saves a checkpoint every 20 requests (line 115); scaled.
CheckpointEvery == 2

\* At most this many faults (a response that is not the service's page, a
\* failed write, a killed process) happen in one behaviour.
MaxFaults == 1

\* The retry budgets 0..MaxRetries are tried beside the default one.
MaxRetries == 1

\* The calls of wait_if_needed made on one RateLimiter.
MaxCalls == 5

\* main() is handed at most this many version identifiers.
MaxWorkers == 2

\* The clock of the RateLimiter runs to this time at most between calls.
MaxTime == 120

\* VersionedRateLimiter allows 100 / 50 / 80 requests per minute; scaled,
\* keeping v2 the most restrictive.
V1Rate == 4

V2Rate == 2

V3Rate == 3

(* ----------------------- program constants ---------------------------- *)

window_size == 60

default_max_retries == 3

default_retry_delay == 60

(* ------------------------------ strings ------------------------------- *)

Str(c) == IF c = "" THEN <<>> ELSE <<c>>

\* ord() of the characters used, for the service's lexicographic order.
Ord(c) ==
    CASE c = " " -> 32
      [] c = "+" -> 43
      [] c = "0" -> 48
      [] c = "a" -> 97
      [] c = "b" -> 98

RECURSIVE StrLess(_, _)
StrLess(s, t) ==
    IF s = <<>> THEN t # <<>>
    ELSE IF t = <<>> THEN FALSE
    ELSE IF Head(s) = Head(t) THEN StrLess(Tail(s), Tail(t))
    ELSE Ord(Head(s)) < Ord(Head(t))

StartsWith(s, p) == Len(p) <= Len(s) /\ SubSeq(s, 1, Len(p)) = p

\* str with '  ' in it
HasDoubleSpace(s) == \E i \in 1..(Len(s) - 1) : s[i] = " " /\ s[i + 1] = " "

RECURSIVE StringsUpTo(_, _)
StringsUpTo(chars, n) ==
    IF n = 0 THEN {<<>>}
    ELSE LET shorter == StringsUpTo(chars, n - 1)
         IN  shorter \cup {Append(s, c) : s \in {x \in shorter : Len(x) = n - 1}, c \in chars}

RECURSIVE SetToList(_)
SetToList(S) ==
    IF S = {} THEN <<>>
    ELSE LET m == CHOOSE x \in S : \A y \in S \ {x} : StrLess(x, y)
         IN  <<m>> \o SetToList(S \ {m})

Range(q) == {q[i] : i \in 1..Len(q)}

Take(q, k) == SubSeq(q, 1, IF k < Len(q) THEN k ELSE Len(q))

(* -------------------------- variant profiles -------------------------- *)

Versions == {"v1", "v2", "v3"}

\* A subclass of the abstract BaseExtractor whose character set holds the
\* space that the filters of _dfs are written for.
SpaceVersion == "vs"

\* get_character_set(): v1 letters; v2 digits, then letters; v3 digits,
\* letters, special characters, then ''.  Two characters of each stand for
\* the classes; the '' of v3 is kept.
GetCharacterSet(v) ==
    CASE v = "v1" -> <<"a", "b">>
      [] v = "v2" -> <<"0", "a">>
      [] v = "v3" -> <<"a", "+", "">>
      [] OTHER    -> <<"a", " ">>

GetMaxResults(v) ==
    CASE v = "v1" -> PageCap
      [] OTHER    -> PageCap + 1

(* ------------------------------ service ------------------------------- *)

\* The names the service can hold for a variant: non-empty strings over the
\* variant's characters, one longer than the deepest prefix at most.
NameUniverse(v) ==
    StringsUpTo(Range(GetCharacterSet(v)) \ {""}, MaxPrefixLength + 1) \ {<<>>}

RECURSIVE SubsetsUpTo(_, _)
SubsetsUpTo(S, k) ==
    IF k = 0 THEN {{}}
    ELSE LET smaller == SubsetsUpTo(S, k - 1)
         IN  smaller \cup {T \cup {x} : T \in smaller, x \in S}

Vocabularies(v) == SubsetsUpTo(NameUniverse(v), MaxVocab)

\* The empty vocabulary and the vocabularies that are dense below one
\* prefix: every name of the universe that starts with it (with the empty
\* prefix, the whole universe).
DenseVocabularies(v) ==
    {{}} \cup {{n \in NameUniverse(v) : StartsWith(n, w)} : w \in NameUniverse(v) \cup {<<>>}}

\* The service's answer to a query: the lexicographically first names with
\* the prefix, a page at most.
Answer(V, p, cap) == Take(SetToList({n \in V : StartsWith(n, p)}), cap)

(* ---------------------------- RateLimiter ----------------------------- *)

RECURSIVE DropOlder(_, _)
DropOlder(ts, limit) ==
    IF ts # <<>> /\ Head(ts) < limit THEN DropOlder(Tail(ts), limit) ELSE ts

\* RateLimiter.wait_if_needed called at time t; `late` is the time that
\* passes in the call beyond the sleep it asks for.
WaitIfNeeded(ts, rpm, t, late) ==
    LET kept == DropOlder(ts, t - window_size)
        wait == IF Len(kept) >= rpm THEN kept[1] + window_size - t ELSE 0
        woke == IF wait > 0 THEN t + wait ELSE t
    IN  [ts |-> Append(kept, woke + late), now |-> woke + late]

RequestsPerMinute(v) ==
    CASE v = "v1" -> V1Rate
      [] v = "v2" -> V2Rate
      [] v = "v3" -> V3Rate

\* VersionedRateLimiter.wait_if_needed: the limiter whose window is used.
LimiterFor(v) == IF v \in Versions THEN v ELSE "v2"

(* ------------------------ AutocompleteAPIClient ----------------------- *)

\* Python values the client can return: a list of strings, or the value of
\* a field that is not a list (JSON null).
ListVal(q) == [type |-> "list", items |-> q]

NullVal == [type |-> "null", items |-> <<>>]

\* Response bodies: a JSON array, a JSON object with some fields, another
\* JSON value, or bytes response.json() cannot parse.
ArrayBody(val) == [type |-> "array", value |-> val, fields |-> <<>>]

ObjectBody(f) == [type |-> "object", value |-> NullVal, fields |-> f]

ScalarBody == [type |-> "scalar", value |-> NullVal, fields |-> <<>>]

InvalidBody == [type |-> "invalid", value |-> NullVal, fields |-> <<>>]

NoHeader == [present |-> FALSE, text |-> <<>>]

Header(t) == [present |-> TRUE, text |-> t]

\* status 0 stands for session.get raising (timeout, connection error).
Response(status, body, h) == [status |-> status, body |-> body, retry_after |-> h]

Ok(body) == Response(200, body, NoHeader)

TransportError == Response(0, InvalidBody, NoHeader)

Digits == {"0", "1", "2", "5", "6"}

DigitValue(c) ==
    CASE c = "0" -> 0 [] c = "1" -> 1 [] c = "2" -> 2 [] c = "5" -> 5 [] c = "6" -> 6

\* str.isdigit()
IsDigit(t) == t # <<>> /\ \A i \in 1..Len(t) : t[i] \in Digits

\* int(str) of a string of digits
RECURSIVE ParseInt(_)
ParseInt(t) ==
    IF t = <<>> THEN 0 ELSE 10 * ParseInt(SubSeq(t, 1, Len(t) - 1)) + DigitValue(t[Len(t)])

\* Mutant: the Retry-After header is ignored.
WaitTimeDefault(h, retry_delay) == retry_delay

\* lines 65-69
WaitTime(h, retry_delay) ==
    IF h.present /\ h.text # <<>> /\ IsDigit(h.text) THEN ParseInt(h.text) ELSE retry_delay

\* lines 43-59
ParseBody(body) ==
    IF body.type = "array" THEN body.value
    ELSE IF body.type = "object" THEN
        IF "results" \in DOMAIN body.fields THEN body.fields["results"]
        ELSE IF "suggestions" \in DOMAIN body.fields THEN body.fields["suggestions"]
        ELSE IF "names" \in DOMAIN body.fields THEN body.fields["names"]
        ELSE ListVal(<<>>)
    ELSE ListVal(<<>>)

\* The server's answer to the n-th attempt; a script shorter than the
\* attempts made repeats its last answer.
Nth(script, n) == IF n <= Len(script) THEN script[n] ELSE script[Len(script)]

ClientReturn(val, attempt, sleeps) ==
    [value |-> val, attempts |-> attempt + 1, sleeps |-> sleeps]

\* Mutant: every status but 200 is handled like 429.
RateLimitedOrError(status) == status # 200

\* line 61: response.status_code == 429
RateLimited(status) == status = 429

\* get_autocomplete_suggestions: the loop of lines 36-88 from `attempt` on.
RECURSIVE ClientLoop(_, _, _, _, _)
ClientLoop(script, attempt, max_retries, retry_delay, sleeps) ==
    IF attempt > max_retries THEN [value |-> ListVal(<<>>), attempts |-> attempt, sleeps |-> sleeps]
    ELSE LET r == Nth(script, attempt + 1) IN
        IF r.status = 0 \/ (r.status = 200 /\ r.body.type = "invalid") THEN
            IF attempt < max_retries
            THEN ClientLoop(script, attempt + 1, max_retries, retry_delay,
                            Append(sleeps, retry_delay))
            ELSE ClientReturn(ListVal(<<>>), attempt, sleeps)
        ELSE IF r.status = 200 THEN ClientReturn(ParseBody(r.body), attempt, sleeps)
        ELSE IF RateLimited(r.status) THEN
            IF attempt < max_retries
            THEN ClientLoop(script, attempt + 1, max_retries, retry_delay,
                            Append(sleeps, WaitTime(r.retry_after, retry_delay)))
            ELSE ClientReturn(ListVal(<<>>), attempt, sleeps)
        ELSE ClientReturn(ListVal(<<>>), attempt, sleeps)

GetAutocompleteSuggestions(script, max_retries, retry_delay) ==
    ClientLoop(script, 0, max_retries, retry_delay, <<>>)

(* ------------------------------- state -------------------------------- *)

VARIABLES
    pc,                 \* "new", "run", "done", "aborted" (an exception left extract_names), "down"
    version,            \* the extractor's version tag
    vocab,              \* the names the remote service holds
    names,              \* BaseExtractor.names
    visited_prefixes,   \* BaseExtractor.visited_prefixes
    request_count,      \* BaseExtractor.request_count
    limiters,           \* VersionedRateLimiter.limiters: version -> request_timestamps
    now,                \* seconds since the process started
    topIdx,             \* extract_names: position of its for loop in the character set
    stack,              \* the _dfs invocations that are in their for loop: [prefix, idx]
    checkpoint,         \* the file {version}_checkpoint.json
    results,            \* the file {version}_names.json
    queryLog,           \* history: the queries of this crawl, in order: [prefix, n]
    calls,              \* history: <<p, i>> when _dfs(p) of this crawl called _dfs(p + chars[i])
    reliable,           \* history: every query of this crawl was answered with the service's page
    faults,             \* the faults that may still happen
    persisted,          \* history: the state in memory that the checkpoint file holds, if it is whole
    lastWhole,          \* history: the state in memory at the last checkpoint that was written whole
    basis               \* history: `persisted` when this crawler was constructed

VARIABLES
    cPc,                \* client under test: "idle" or "returned"
    cScript,            \* what the server answers to the attempts of the call
    cMaxRetries,        \* the call's max_retries
    cRetryDelay,        \* the call's retry_delay
    cResult             \* what get_autocomplete_suggestions returned

VARIABLES
    lRpm,               \* limiter under test: requests_per_minute
    lTimestamps,        \* RateLimiter.request_timestamps
    lNow,               \* time.time()
    lRecorded           \* history: every timestamp the limiter recorded, in order

VARIABLES
    interruptedAt,      \* main: -1, or len(queryLog) when KeyboardInterrupt was raised in main
    exited              \* main: the process has left main()

VARIABLES
    versions,           \* main: args.versions.split(',')
    workers             \* main: the submitted run_extractor calls: [version, pc]

clientVars == <<cPc, cScript, cMaxRetries, cRetryDelay, cResult>>

mainVars == <<interruptedAt, exited>>

supervisorVars == <<versions, workers>>

limiterVars == <<lRpm, lTimestamps, lNow, lRecorded>>

crawlVars == <<pc, version, vocab, names, visited_prefixes, request_count, limiters, now,
               topIdx, stack, checkpoint, results, queryLog, calls, reliable, faults, persisted,
               lastWhole, basis>>

(* ------------------------------- files -------------------------------- *)

NoFile == [kind |-> "none", names |-> <<>>, visited_prefixes |-> <<>>, request_count |-> 0]

\* A file that was opened with 'w' and not written to its end.
PartialFile == [kind |-> "partial", names |-> <<>>, visited_prefixes |-> <<>>, request_count |-> 0]

\* json.dump of lines 64-68: list(set) of both sets and the count.
CheckpointJson(ns, vs, n) ==
    [kind |-> "json", names |-> SetToList(ns), visited_prefixes |-> SetToList(vs),
     request_count |-> n]

\* Mutant: the visited prefixes are not restored.
LoadCheckpointNamesOnly(file) ==
    IF file.kind = "json"
    THEN [names |-> Range(file.names), visited_prefixes |-> {},
          request_count |-> file.request_count]
    ELSE [names |-> {}, visited_prefixes |-> {}, request_count |-> 0]

\* Mutant: the request count is not restored.
LoadCheckpointNoCount(file) ==
    IF file.kind = "json"
    THEN [names |-> Range(file.names), visited_prefixes |-> Range(file.visited_prefixes),
          request_count |-> 0]
    ELSE [names |-> {}, visited_prefixes |-> {}, request_count |-> 0]

\* A JSON object whose 'names' is a list and whose 'visited_prefixes' is a
\* number: set() of it raises after self.names was assigned (lines 52-53).
BadVisitedJson(ns) ==
    [kind |-> "visited_prefixes not iterable", names |-> SetToList(ns),
     visited_prefixes |-> <<>>, request_count |-> 0]

\* A JSON object whose 'names' is a number: set() of it raises at line 52.
BadNamesJson(vs, n) ==
    [kind |-> "names not iterable", names |-> <<>>,
     visited_prefixes |-> SetToList(vs), request_count |-> n]

\* _load_checkpoint: the state after __init__ of lines 29-35.  The three
\* fields are assigned one after the other inside the try block, so an
\* exception leaves the ones assigned before it.
LoadCheckpoint(file) ==
    IF file.kind = "json"
    THEN [names |-> Range(file.names), visited_prefixes |-> Range(file.visited_prefixes),
          request_count |-> file.request_count]
    ELSE IF file.kind = "visited_prefixes not iterable"
    THEN [names |-> Range(file.names), visited_prefixes |-> {}, request_count |-> 0]
    ELSE [names |-> {}, visited_prefixes |-> {}, request_count |-> 0]

\* What a _save_checkpoint leaves on disk: written whole; open() failed;
\* the write failed after open() truncated the file.
SaveOutcomes == {"written", "open failed", "write failed"}

SaveCheckpoint(file, ns, vs, n, outcome) ==
    CASE outcome = "written"      -> CheckpointJson(ns, vs, n)
      [] outcome = "open failed"  -> file
      [] outcome = "write failed" -> PartialFile

NoState == [valid |-> FALSE, names |-> {}, visited_prefixes |-> {}, request_count |-> 0]

Persisted(old, ns, vs, n, outcome) ==
    CASE outcome = "written"      -> [valid |-> TRUE, names |-> ns, visited_prefixes |-> vs,
                                      request_count |-> n]
      [] outcome = "open failed"  -> old
      [] outcome = "write failed" -> NoState

\* json.dump of lines 78-83
ResultsJson(v, ns, n) ==
    [kind |-> "json", version |-> v, names |-> SetToList(ns), request_count |-> n,
     total_names |-> Cardinality(ns)]

NoResults == [kind |-> "none", version |-> "", names |-> <<>>, request_count |-> 0, total_names |-> 0]

PartialResults == [kind |-> "partial", version |-> "", names |-> <<>>, request_count |-> 0, total_names |-> 0]

SaveResults(file, v, ns, n, outcome) ==
    CASE outcome = "written"      -> ResultsJson(v, ns, n)
      [] outcome = "open failed"  -> file
      [] outcome = "write failed" -> PartialResults

(* ------------------------------ crawler ------------------------------- *)

\* Mutant: the single space is rejected like every other prefix with a
\* space at either end.
RejectedAnyLength(prefix) ==
    \/ HasDoubleSpace(prefix)
    \/ Len(prefix) > 0 /\ (prefix[1] = " " \/ prefix[Len(prefix)] = " ")

\* _dfs lines 164-170: the prefixes that are marked visited and not queried.
Rejected(prefix) ==
    \/ HasDoubleSpace(prefix)
    \/ /\ Len(prefix) > 0 /\ (prefix[1] = " " \/ prefix[Len(prefix)] = " ")
       /\ Len(prefix) > 1

\* Mutant: children are explored only beyond a full page.
ExploreDeeperStrict(n, cap) == n > cap

\* _dfs line 177: a full page may hide more names.
ExploreDeeper(n, cap) == n >= cap

\* Mutant: the deepest prefixes are left out.
WithinLengthStrict(next_prefix) == Len(next_prefix) < MaxPrefixLength

\* _dfs line 182
WithinLength(next_prefix) == Len(next_prefix) <= MaxPrefixLength

RECURSIVE Sum(_)
Sum(q) == IF q = <<>> THEN 0 ELSE Head(q) + Sum(Tail(q))

\* What the server does with the query of a crawl: its page, in the shape
\* of the live service; a page one name longer than get_max_results();
\* an error status; a body whose field is no list.
PageScript(V, p, cap) == <<Ok(ObjectBody("results" :> ListVal(Answer(V, p, cap))))>>

CrawlScripts(V, p, cap) ==
    {PageScript(V, p, cap),
     PageScript(V, p, cap + 1),
     <<Response(500, ScalarBody, NoHeader)>>,
     <<Ok(ObjectBody("results" :> NullVal))>>}

ScriptCost(script, V, p, cap) == IF script = PageScript(V, p, cap) THEN 0 ELSE 1

SaveCost(outcome) == IF outcome = "written" THEN 0 ELSE 1

FreshLimiters == [v \in Versions |-> <<>>]

\* The process is gone: nothing of its memory is left.
ProcessGone ==
    /\ names' = {} /\ visited_prefixes' = {} /\ request_count' = 0
    /\ limiters' = FreshLimiters /\ now' = 0 /\ topIdx' = 1 /\ stack' = <<>>
    /\ queryLog' = <<>> /\ calls' = {} /\ reliable' = TRUE /\ basis' = NoState

\* Mutant: the checkpoint is saved one request early.
CheckpointDueEarly(n) == (n + 1) % CheckpointEvery = 0

\* get_suggestions line 115: self.request_count % 20 == 0
CheckpointDue(n) == n % CheckpointEvery = 0

\* Mutant: the names of the last answer replace the names found before.
ReplaceNames(ns, response) == Range(response)

\* get_suggestions line 112: self.names.update(response)
UpdateNames(ns, response) == ns \cup Range(response)

\* get_suggestions(query) called by _dfs(query), and the branching decision
\* of lines 177-187.  `ret` is the stack _dfs returns to; `top` and `cs` are
\* the caller's loop position and call history once the call is made.
GetSuggestions(query, ret, top, cs) ==
    \E script \in CrawlScripts(vocab, query, GetMaxResults(version)), outcome \in SaveOutcomes \cup {"crashed"} :
        LET which == LimiterFor(version)
            lim   == WaitIfNeeded(limiters[which], RequestsPerMinute(which), now, 0)
            res   == GetAutocompleteSuggestions(script, default_max_retries, default_retry_delay)
            val   == res.value
            n     == request_count + 1
            ns    == UpdateNames(names, val.items)
            vs    == visited_prefixes \cup {query}
            due   == CheckpointDue(n)
            cost  == ScriptCost(script, vocab, query, GetMaxResults(version))
        IN  IF val.type # "list" THEN
                \* len(response) raises TypeError at line 105
                /\ outcome = "written"
                /\ cost <= faults
                /\ faults' = faults - cost
                /\ pc' = "aborted"
                /\ visited_prefixes' = vs
                /\ limiters' = [limiters EXCEPT ![which] = lim.ts]
                /\ now' = lim.now + Sum(res.sleeps)
                /\ stack' = <<>>
                /\ reliable' = FALSE
                /\ topIdx' = top
                /\ calls' = cs
                /\ queryLog' = Append(queryLog, [prefix |-> query, n |-> 0])
                /\ UNCHANGED <<names, request_count, checkpoint, persisted, lastWhole, basis>>
            ELSE IF due /\ outcome = "crashed" THEN
                \* the process is killed inside the json.dump of _save_checkpoint
                /\ cost + 1 <= faults
                /\ faults' = faults - (cost + 1)
                /\ pc' = "down"
                /\ checkpoint' = PartialFile
                /\ persisted' = NoState
                /\ UNCHANGED lastWhole
                /\ ProcessGone
            ELSE
                /\ due \/ outcome = "written"
                /\ outcome # "crashed"
                /\ cost + SaveCost(outcome) <= faults
                /\ faults' = faults - (cost + SaveCost(outcome))
                /\ pc' = "run"
                /\ request_count' = n
                /\ visited_prefixes' = vs
                /\ names' = ns
                /\ limiters' = [limiters EXCEPT ![which] = lim.ts]
                /\ now' = lim.now + Sum(res.sleeps)
                /\ checkpoint' = IF due THEN SaveCheckpoint(checkpoint, ns, vs, n, outcome)
                                 ELSE checkpoint
                /\ persisted' = IF due THEN Persisted(persisted, ns, vs, n, outcome)
                                ELSE persisted
                /\ lastWhole' = IF due /\ outcome = "written"
                                THEN Persisted(persisted, ns, vs, n, outcome)
                                ELSE lastWhole
                /\ queryLog' = Append(queryLog, [prefix |-> query, n |-> Len(val.items)])
                /\ reliable' = (reliable /\ cost = 0)
                /\ stack' = IF ExploreDeeper(Len(val.items), GetMaxResults(version))
                            THEN Append(ret, [prefix |-> query, idx |-> 1])
                            ELSE ret
                /\ topIdx' = top
                /\ calls' = cs
                /\ UNCHANGED basis

\* Mutant: _dfs without the membership test of lines 159-160.
DfsNoMemo(prefix, ret, top, cs) ==
    IF Rejected(prefix) THEN
        /\ visited_prefixes' = visited_prefixes \cup {prefix}
        /\ stack' = ret
        /\ topIdx' = top
        /\ calls' = cs
        /\ UNCHANGED <<pc, names, request_count, limiters, now, checkpoint,
                       queryLog, reliable, faults, persisted, lastWhole, basis>>
    ELSE GetSuggestions(prefix, ret, top, cs)

\* _dfs(prefix), up to its for loop
Dfs(prefix, ret, top, cs) ==
    IF prefix \in visited_prefixes THEN
        /\ stack' = ret
        /\ topIdx' = top
        /\ calls' = cs
        /\ UNCHANGED <<pc, names, visited_prefixes, request_count, limiters, now,
                       checkpoint, queryLog, reliable, faults, persisted, lastWhole, basis>>
    ELSE IF Rejected(prefix) THEN
        /\ visited_prefixes' = visited_prefixes \cup {prefix}
        /\ stack' = ret
        /\ topIdx' = top
        /\ calls' = cs
        /\ UNCHANGED <<pc, names, request_count, limiters, now, checkpoint,
                       queryLog, reliable, faults, persisted, lastWhole, basis>>
    ELSE GetSuggestions(prefix, ret, top, cs)

\* Mutant: the character set is walked from its end.
ReversedCharacterSet ==
    [i \in 1..Len(GetCharacterSet(version)) |->
        GetCharacterSet(version)[Len(GetCharacterSet(version)) + 1 - i]]

CharacterSet == GetCharacterSet(version)

\* __init__ (lines 29-35) of a new process, and the start of extract_names.
Construct ==
    /\ pc \in {"new", "down"}
    /\ LET st == LoadCheckpoint(checkpoint)
       IN  /\ names' = st.names
           /\ visited_prefixes' = st.visited_prefixes
           /\ request_count' = st.request_count
    /\ pc' = "run"
    /\ limiters' = FreshLimiters
    /\ now' = 0
    /\ topIdx' = 1
    /\ stack' = <<>>
    /\ queryLog' = <<>>
    /\ calls' = {}
    /\ reliable' = TRUE
    /\ basis' = persisted
    /\ UNCHANGED <<version, vocab, checkpoint, results, faults, persisted, lastWhole>>
    /\ UNCHANGED <<clientVars, limiterVars, mainVars, supervisorVars>>

\* extract_names lines 138-140: one iteration of the for loop.
ExtractNext ==
    /\ pc = "run" /\ stack = <<>> /\ topIdx <= Len(CharacterSet)
    /\ LET char == Str(CharacterSet[topIdx])
       IN  IF char \notin visited_prefixes
           THEN Dfs(char, <<>>, topIdx + 1, calls)
           ELSE /\ topIdx' = topIdx + 1
                /\ UNCHANGED <<pc, names, visited_prefixes, request_count, limiters, now, stack,
                               checkpoint, queryLog, calls, reliable, faults, persisted, lastWhole, basis>>
    /\ UNCHANGED <<version, vocab, results>>
    /\ UNCHANGED <<clientVars, limiterVars, mainVars, supervisorVars>>

\* _dfs lines 179-183: one iteration of the for loop of the innermost
\* invocation, or its return when the loop is over.
DfsChild ==
    /\ pc = "run" /\ stack # <<>>
    /\ LET depth  == Len(stack)
           frame  == stack[depth]
           below  == SubSeq(stack, 1, depth - 1)
       IN  IF frame.idx > Len(CharacterSet)
           THEN /\ stack' = below
                /\ UNCHANGED <<pc, names, visited_prefixes, request_count, limiters, now, topIdx,
                               checkpoint, queryLog, calls, reliable, faults, persisted, lastWhole, basis>>
           ELSE LET next_prefix == frame.prefix \o Str(CharacterSet[frame.idx])
                    ret == Append(below, [frame EXCEPT !.idx = frame.idx + 1])
                IN  IF WithinLength(next_prefix)
                    THEN Dfs(next_prefix, ret, topIdx, calls \cup {<<frame.prefix, frame.idx>>})
                    ELSE /\ stack' = ret
                         /\ UNCHANGED <<pc, names, visited_prefixes, request_count, limiters, now,
                                        topIdx, checkpoint, queryLog, calls, reliable, faults,
                                        persisted, lastWhole, basis>>
    /\ UNCHANGED <<version, vocab, results>>
    /\ UNCHANGED <<clientVars, limiterVars, mainVars, supervisorVars>>

\* extract_names line 143: the final _save_checkpoint.
FinalCheckpoint ==
    /\ pc = "run" /\ stack = <<>> /\ topIdx > Len(CharacterSet)
    /\ \E outcome \in SaveOutcomes \cup {"crashed"} :
        /\ SaveCost(outcome) <= faults
        /\ faults' = faults - SaveCost(outcome)
        /\ IF outcome = "crashed"
           THEN /\ pc' = "down"
                /\ checkpoint' = PartialFile
                /\ persisted' = NoState
                /\ UNCHANGED lastWhole
                /\ ProcessGone
           ELSE /\ pc' = "final"
                /\ checkpoint' = SaveCheckpoint(checkpoint, names, visited_prefixes, request_count, outcome)
                /\ persisted' = Persisted(persisted, names, visited_prefixes, request_count, outcome)
                /\ lastWhole' = IF outcome = "written"
                                THEN Persisted(persisted, names, visited_prefixes, request_count, outcome)
                                ELSE lastWhole
                /\ UNCHANGED <<names, visited_prefixes, request_count, limiters, now, topIdx, stack,
                               queryLog, calls, reliable, basis>>
    /\ UNCHANGED <<version, vocab, results>>
    /\ UNCHANGED <<clientVars, limiterVars, mainVars, supervisorVars>>

\* extract_names line 144: _save_results, and the end of the crawl.
FinalResults ==
    /\ pc = "final"
    /\ \E outcome \in SaveOutcomes :
        /\ SaveCost(outcome) <= faults
        /\ faults' = faults - SaveCost(outcome)
        /\ results' = SaveResults(results, version, names, request_count, outcome)
    /\ pc' = "done"
    /\ UNCHANGED <<version, vocab, names, visited_prefixes, request_count, limiters, now, topIdx,
                   stack, checkpoint, queryLog, calls, reliable, persisted, lastWhole, basis>>
    /\ UNCHANGED <<clientVars, limiterVars, mainVars, supervisorVars>>

\* The process is killed (or the machine stops) between two steps.
Crash ==
    /\ pc \in {"run", "final"}
    /\ faults >= 1
    /\ faults' = faults - 1
    /\ pc' = "down"
    /\ ProcessGone
    /\ UNCHANGED <<version, vocab, checkpoint, results, persisted, lastWhole>>
    /\ UNCHANGED <<clientVars, limiterVars, mainVars, supervisorVars>>

ClientUnused ==
    /\ cPc = "idle" /\ cScript = <<>> /\ cMaxRetries = 0 /\ cRetryDelay = 0
    /\ cResult = [value |-> ListVal(<<>>), attempts |-> 0, sleeps |-> <<>>]

LimiterUnused == lRpm = 0 /\ lTimestamps = <<>> /\ lNow = 0 /\ lRecorded = <<>>

\* main() has not been interrupted and has not returned.
MainUnused == interruptedAt = -1 /\ exited = FALSE

\* No supervisor under test: nothing was submitted.
SupervisorUnused == versions = <<>> /\ workers = <<>>

Unstarted ==
    /\ pc = "new"
    /\ names = {} /\ visited_prefixes = {} /\ request_count = 0
    /\ limiters = FreshLimiters /\ now = 0 /\ topIdx = 1 /\ stack = <<>>
    /\ checkpoint = NoFile /\ results = NoResults
    /\ queryLog = <<>> /\ calls = {} /\ reliable = TRUE
    /\ persisted = NoState /\ lastWhole = NoState /\ basis = NoState
    /\ MainUnused /\ SupervisorUnused

Init ==
    /\ Unstarted /\ ClientUnused /\ LimiterUnused
    /\ version \in Versions
    /\ vocab \in DenseVocabularies(version)
    /\ faults = MaxFaults

Next ==
    \/ Construct
    \/ ExtractNext
    \/ DfsChild
    \/ FinalCheckpoint
    \/ FinalResults
    \/ Crash

vars == <<crawlVars, clientVars, limiterVars, mainVars, supervisorVars>>

\* One crawler of v1, v2 or v3 against a service that may fail, with
\* failing writes and killed processes.
Spec == Init /\ [][Next]_vars

\* A crawler of a subclass whose character set holds the space.
InitSpace ==
    /\ Unstarted /\ ClientUnused /\ LimiterUnused
    /\ version = SpaceVersion
    /\ vocab \in DenseVocabularies(version)
    /\ faults = MaxFaults

SpecSpace == InitSpace /\ [][Next]_vars

\* An uninterrupted crawl against a service that never fails.
InitService ==
    /\ Unstarted /\ ClientUnused /\ LimiterUnused
    /\ version \in Versions
    /\ vocab \in Vocabularies(version)
    /\ faults = 0

NextService ==
    \/ Construct
    \/ ExtractNext
    \/ DfsChild
    \/ FinalCheckpoint
    \/ FinalResults

SpecService == InitService /\ [][NextService]_vars

(* ------------------- the client, called on its own -------------------- *)

SomeNames == {<<>>, <<<<"x">>, <<"y">>>>}

\* The bodies a 200 can carry: the three recognized fields, alone and
\* together, an unknown field, a field that is null, and the other shapes.
Bodies ==
    {ArrayBody(ListVal(q)) : q \in SomeNames}
    \cup {ObjectBody(k :> ListVal(<<<<"x">>, <<"y">>>>)) : k \in {"results", "suggestions", "names", "count"}}
    \cup {ObjectBody(("names" :> ListVal(<<<<"x">>>>)) @@ ("results" :> ListVal(<<<<"y">>>>))),
          ObjectBody("results" :> NullVal),
          ScalarBody, InvalidBody}

Headers == {NoHeader, Header(<<>>), Header(<<"5">>), Header(<<"0">>), Header(<<"1", "2">>),
            Header(<<"x">>), Header(<<"-", "1">>)}

Outcomes ==
    {Ok(b) : b \in Bodies}
    \cup {Response(429, ScalarBody, h) : h \in Headers}
    \cup {Response(500, ScalarBody, NoHeader), Response(404, ScalarBody, NoHeader), TransportError}

RECURSIVE ScriptsUpTo(_)
ScriptsUpTo(n) ==
    IF n = 0 THEN {<<>>}
    ELSE LET shorter == ScriptsUpTo(n - 1)
         IN  shorter \cup {Append(q, o) : q \in {x \in shorter : Len(x) = n - 1}, o \in Outcomes}

\* One call of get_autocomplete_suggestions against a scripted server.
ClientCall ==
    /\ cPc = "idle"
    /\ \E script \in ScriptsUpTo(MaxRetries + 1) \ {<<>>},
          max_retries \in (0..MaxRetries) \cup {default_max_retries},
          retry_delay \in {default_retry_delay, 1} :
        /\ cScript' = script
        /\ cMaxRetries' = max_retries
        /\ cRetryDelay' = retry_delay
        /\ cResult' = GetAutocompleteSuggestions(script, max_retries, retry_delay)
    /\ cPc' = "returned"
    /\ UNCHANGED <<crawlVars, limiterVars, mainVars, supervisorVars>>

InitClient ==
    /\ Unstarted /\ version = "v1" /\ vocab = {} /\ faults = 0
    /\ ClientUnused /\ LimiterUnused

NextClient == ClientCall

SpecClient == InitClient /\ [][NextClient]_vars

(* ---------------------- one RateLimiter on its own --------------------- *)

\* wait_if_needed, called by the one caller; the call may take a second
\* more than the sleep it asks for.
LimiterCall ==
    /\ Len(lRecorded) < MaxCalls
    /\ \E late \in {0, 1} :
        LET r == WaitIfNeeded(lTimestamps, lRpm, lNow, late)
        IN  /\ lTimestamps' = r.ts
            /\ lNow' = r.now
            /\ lRecorded' = Append(lRecorded, r.now)
    /\ UNCHANGED <<lRpm, crawlVars, clientVars, mainVars, supervisorVars>>

\* Time passes between two calls.
Tick ==
    /\ \E d \in {30, window_size} :
        /\ lNow + d <= MaxTime
        /\ lNow' = lNow + d
    /\ UNCHANGED <<lRpm, lTimestamps, lRecorded, crawlVars, clientVars, mainVars, supervisorVars>>

InitLimiter ==
    /\ Unstarted /\ version = "v1" /\ vocab = {} /\ faults = 0
    /\ ClientUnused
    /\ lRpm \in {V1Rate, V2Rate, V3Rate}
    /\ lTimestamps = <<>> /\ lNow = 0 /\ lRecorded = <<>>

NextLimiter == LimiterCall \/ Tick

SpecLimiter == InitLimiter /\ [][NextLimiter]_vars

(* ------------- the crawl that is never stopped, in closed form -------- *)

\* extract_names lines 138-140: the prefixes _dfs is called on first.
TopLevel(v) == {Str(GetCharacterSet(v)[i]) : i \in 1..Len(GetCharacterSet(v))}

\* _dfs lines 164-183: the prefixes _dfs(p) calls _dfs on.
Children(V, v, p) ==
    IF ~Rejected(p) /\ ExploreDeeper(Len(Answer(V, p, GetMaxResults(v))), GetMaxResults(v))
    THEN {q \in {p \o Str(GetCharacterSet(v)[i]) : i \in 1..Len(GetCharacterSet(v))} :
            WithinLength(q)}
    ELSE {}

\* The prefixes a crawl from empty state calls _dfs on, k levels deep.
RECURSIVE Visits(_, _, _, _)
Visits(V, v, P, k) ==
    IF k = 0 THEN P
    ELSE Visits(V, v, P \cup UNION {Children(V, v, p) : p \in P}, k - 1)

\* names at the end of an uninterrupted crawl from empty state against the
\* service that holds V and never fails.
UninterruptedNames(V, v) ==
    UNION {Range(Answer(V, p, GetMaxResults(v))) :
             p \in {q \in Visits(V, v, TopLevel(v), MaxPrefixLength) : ~Rejected(q)}}

(* ------------- a crawler started over a file it did not write -------- *)

\* The checkpoint files the program can find when it starts: cut short,
\* whole, or JSON with a field of the wrong type.
FoundFiles ==
    {PartialFile,
     CheckpointJson({<<"a">>}, {<<"a">>}, 1),
     BadVisitedJson({<<"a">>}),
     BadNamesJson({<<"a">>}, 1)}

\* The file is there before the program starts.
PlaceFile ==
    /\ pc = "new" /\ checkpoint = NoFile
    /\ checkpoint' \in FoundFiles
    /\ UNCHANGED <<pc, version, vocab, names, visited_prefixes, request_count, limiters, now,
                   topIdx, stack, results, queryLog, calls, reliable, faults, persisted,
                   lastWhole, basis>>
    /\ UNCHANGED <<clientVars, limiterVars, mainVars, supervisorVars>>

InitLoad ==
    /\ Unstarted /\ ClientUnused /\ LimiterUnused
    /\ version \in Versions
    /\ vocab \in DenseVocabularies(version)
    /\ faults = 0

NextLoad ==
    \/ PlaceFile
    \/ Construct
    \/ ExtractNext
    \/ DfsChild
    \/ FinalCheckpoint
    \/ FinalResults

SpecLoad == InitLoad /\ [][NextLoad]_vars

(* ------------------- main() around one running crawler ---------------- *)

\* KeyboardInterrupt is raised in the main thread while it waits for the
\* futures (main.py:54).  Leaving the `with` block joins the worker threads,
\* so the crawler of run_extractor is not touched: it goes on as before.
Interrupt ==
    /\ pc = "run" /\ interruptedAt = -1 /\ ~exited
    /\ interruptedAt' = Len(queryLog)
    /\ UNCHANGED <<exited, crawlVars, clientVars, limiterVars, supervisorVars>>

\* main() returns: the `with` block is left once the future of
\* run_extractor is finished, whether extract_names returned or raised.
Exit ==
    /\ pc \in {"done", "aborted"} /\ ~exited
    /\ exited' = TRUE
    /\ UNCHANGED <<interruptedAt, crawlVars, clientVars, limiterVars, supervisorVars>>

\* One crawler under main(); the process is not killed from outside.
NextMain ==
    \/ Construct
    \/ ExtractNext /\ pc' # "down"
    \/ DfsChild /\ pc' # "down"
    \/ FinalCheckpoint /\ pc' # "down"
    \/ FinalResults
    \/ Interrupt
    \/ Exit

SpecMain == Init /\ [][NextMain]_vars

(* --------------------- main() as the supervisor ----------------------- *)

\* An identifier that is no key of main's `extractors`.
UnknownVersion == "v9"

RECURSIVE ListsUpTo(_, _)
ListsUpTo(S, n) ==
    IF n = 0 THEN {<<>>}
    ELSE LET shorter == ListsUpTo(S, n - 1)
         IN  shorter \cup {Append(q, x) : q \in {y \in shorter : Len(y) = n - 1}, x \in S}

\* What args.versions.split(',') can be: never the empty list.
VersionArgs == ListsUpTo(Versions \cup {UnknownVersion}, MaxWorkers) \ {<<>>}

\* _get_checkpoint_path / _get_results_path: the file name is made of the
\* version tag alone.
CheckpointPath(v) == <<v, "_checkpoint.json">>

ResultsPath(v) == <<v, "_names.json">>

\* The file a worker has open for writing, if any.
OpenForWriting(w) ==
    IF w.pc \in {"periodic save", "final save"} THEN {CheckpointPath(w.version)}
    ELSE IF w.pc = "writing results" THEN {ResultsPath(w.version)}
    ELSE {}

\* main line 43
ParseArgs ==
    /\ versions = <<>> /\ workers = <<>>
    /\ versions' \in VersionArgs
    /\ UNCHANGED <<workers, crawlVars, clientVars, limiterVars, mainVars>>

\* main lines 47-52: one run_extractor is submitted for every item of the
\* list that is a key of `extractors`, to a pool of len(versions) threads.
Submit ==
    /\ versions # <<>> /\ workers = <<>>
    /\ \E i \in 1..Len(versions) : versions[i] \in Versions
    /\ LET known == SelectSeq(versions, LAMBDA v : v \in Versions)
       IN  workers' = [i \in 1..Len(known) |->
                          [version |-> known[i], pc |-> "submitted", crawler |-> 0]]
    /\ UNCHANGED <<versions, crawlVars, clientVars, limiterVars, mainVars>>

\* run_extractor line 30: a new extractor object, with its own names,
\* visited_prefixes, request_count, client and VersionedRateLimiter.
RunExtractor ==
    /\ \E i \in 1..Len(workers) :
        /\ workers[i].pc = "submitted"
        /\ workers' = [workers EXCEPT ![i].pc = "crawling", ![i].crawler = i]
    /\ UNCHANGED <<versions, crawlVars, clientVars, limiterVars, mainVars>>

\* _save_checkpoint line 63, called from get_suggestions (line 116) or from
\* extract_names (line 143): the file is opened with 'w'.
OpenCheckpoint ==
    /\ \E i \in 1..Len(workers), save \in {"periodic save", "final save"} :
        /\ workers[i].pc = "crawling"
        /\ workers' = [workers EXCEPT ![i].pc = save]
    /\ UNCHANGED <<versions, crawlVars, clientVars, limiterVars, mainVars>>

\* _save_checkpoint lines 64-68: json.dump is done and the file closed.
CloseCheckpoint ==
    /\ \E i \in 1..Len(workers) :
        /\ workers[i].pc \in {"periodic save", "final save"}
        /\ workers' = [workers EXCEPT ![i].pc =
                          IF workers[i].pc = "periodic save" THEN "crawling" ELSE "saved"]
    /\ UNCHANGED <<versions, crawlVars, clientVars, limiterVars, mainVars>>

\* _save_results line 77
OpenResults ==
    /\ \E i \in 1..Len(workers) :
        /\ workers[i].pc = "saved"
        /\ workers' = [workers EXCEPT ![i].pc = "writing results"]
    /\ UNCHANGED <<versions, crawlVars, clientVars, limiterVars, mainVars>>

\* _save_results lines 78-83, and the return of run_extractor
CloseResults ==
    /\ \E i \in 1..Len(workers) :
        /\ workers[i].pc = "writing results"
        /\ workers' = [workers EXCEPT ![i].pc = "done"]
    /\ UNCHANGED <<versions, crawlVars, clientVars, limiterVars, mainVars>>

InitSupervisor ==
    /\ Unstarted /\ version = "v1" /\ vocab = {} /\ faults = 0
    /\ ClientUnused /\ LimiterUnused

NextSupervisor ==
    \/ ParseArgs
    \/ Submit
    \/ RunExtractor
    \/ OpenCheckpoint
    \/ CloseCheckpoint
    \/ OpenResults
    \/ CloseResults

SpecSupervisor == InitSupervisor /\ [][NextSupervisor]_vars

(* ============================== claims ================================ *)

\* The prefixes that were passed to the service client in this crawl.
Queried == {queryLog[i].prefix : i \in 1..Len(queryLog)}

\* The prefix the next step of the crawl invokes _dfs on, if it invokes it.
CallNext ==
    IF pc # "run" THEN {}
    ELSE IF stack = <<>> THEN
        IF topIdx <= Len(CharacterSet) /\ Str(CharacterSet[topIdx]) \notin visited_prefixes
        THEN {Str(CharacterSet[topIdx])} ELSE {}
    ELSE LET frame == stack[Len(stack)]
         IN  IF frame.idx <= Len(CharacterSet)
                /\ Len(frame.prefix \o Str(CharacterSet[frame.idx])) <= MaxPrefixLength
             THEN {frame.prefix \o Str(CharacterSet[frame.idx])} ELSE {}

\* The state right after __init__ of a crawler.
JustConstructed == pc = "run" /\ topIdx = 1 /\ stack = <<>> /\ queryLog = <<>>

InProgress == {stack[i].prefix : i \in 1..Len(stack)}

\* The positions of the character set from which _dfs(p) called a child.
CalledFrom(p) == {j \in 1..Len(CharacterSet) : <<p, j>> \in calls}

(* C1: in one crawl, started empty or restored, no prefix is passed to the
   service client twice, and _dfs on a prefix that is already in
   visited_prefixes issues no query and leaves names, visited_prefixes and
   request_count as they are. *)
C1_QueriedOnce ==
    /\ [](\A i, j \in 1..Len(queryLog) : queryLog[i].prefix = queryLog[j].prefix => i = j)
    /\ [][(pc = "run" /\ pc' # "down" /\ CallNext # {} /\ CallNext \subseteq visited_prefixes)
            => /\ queryLog' = queryLog
               /\ names' = names
               /\ visited_prefixes' = visited_prefixes
               /\ request_count' = request_count]_vars

\* A crawl restored from a checkpoint has queried a prefix and has called
\* _dfs on a prefix that the checkpoint held as visited.
C1_Witness ==
    /\ pc = "done" /\ basis.valid /\ queryLog # <<>>
    /\ \E c \in calls : (c[1] \o Str(CharacterSet[c[2]])) \in basis.visited_prefixes

(* C2: once _dfs(p) has returned, if the query of p returned at least
   get_max_results() names, _dfs was called on p + c for exactly the
   characters c of the character set with len(p + c) <= 10 (the scaled
   MaxPrefixLength), every position of the set once; if it returned fewer,
   _dfs(p) calls no child, at any time. *)
C2_Branching ==
    \A i \in 1..Len(queryLog) :
        LET p == queryLog[i].prefix
            full == queryLog[i].n >= GetMaxResults(version)
        IN  /\ ~full => CalledFrom(p) = {}
            /\ (full /\ pc \in {"run", "final", "done"} /\ p \notin InProgress)
                 => CalledFrom(p) = {j \in 1..Len(CharacterSet) :
                                        Len(p) + Len(Str(CharacterSet[j])) <= MaxPrefixLength}

\* A finished crawl in which one query returned exactly get_max_results()
\* names and had all its children called, and another returned one fewer.
C2_Witness ==
    /\ pc = "done"
    /\ \E i, j \in 1..Len(queryLog) :
        /\ queryLog[i].n = GetMaxResults(version)
        /\ Cardinality(CalledFrom(queryLog[i].prefix)) = Len(CharacterSet)
        /\ queryLog[j].n = GetMaxResults(version) - 1

(* C3: a crawler constructed over a checkpoint that _save_checkpoint wrote
   starts with the names, visited_prefixes and request_count that were in
   memory at the save; it then queries no prefix of that visited set, and
   when it completes its names include the saved names. *)
C3_Resume ==
    basis.valid =>
        /\ JustConstructed =>
            /\ names = basis.names
            /\ visited_prefixes = basis.visited_prefixes
            /\ request_count = basis.request_count
        /\ Queried \cap basis.visited_prefixes = {}
        /\ pc = "done" => basis.names \subseteq names

\* A crawl resumed from a checkpoint with names has queried and completed.
C3_Witness ==
    /\ pc = "done" /\ basis.valid /\ basis.names # {} /\ basis.request_count >= 2
    /\ queryLog # <<>>

(* C4 as claimed: against the service that never fails an uninterrupted
   crawl from empty state ends with names equal to the vocabulary. *)
C4_Complete == pc = "done" => names = vocab

(* C4 amended: such a crawl ends with names inside the vocabulary and
   holding every vocabulary name that is no longer than the deepest prefix
   or whose first MaxPrefixLength characters are shared by at most
   get_max_results() vocabulary names. *)
C4_CompleteWithinDepth ==
    pc = "done" =>
        /\ names \subseteq vocab
        /\ \A n \in vocab :
            (\/ Len(n) <= MaxPrefixLength
             \/ Cardinality({m \in vocab : StartsWith(m, SubSeq(n, 1, MaxPrefixLength))})
                    <= GetMaxResults(version))
                => n \in names

\* A finished crawl that branched and found the whole vocabulary, which
\* holds a name longer than the deepest prefix.
C4_Witness ==
    /\ pc = "done" /\ calls # {} /\ names = vocab
    /\ \E n \in vocab : Len(n) > MaxPrefixLength

(* C8: _dfs on an unvisited prefix that contains two consecutive spaces, or
   is longer than 1 and starts or ends with a space, adds it to
   visited_prefixes and does nothing else: no query, no name, no request
   counted, no child; _dfs on the unvisited single space queries it. *)
C8_Filter ==
    [][\A p \in CallNext :
         (pc' # "down" /\ p \notin visited_prefixes) =>
            /\ ((\E i \in 1..(Len(p) - 1) : p[i] = " " /\ p[i + 1] = " ")
                \/ (Len(p) > 1 /\ (Head(p) = " " \/ p[Len(p)] = " ")))
                 => /\ visited_prefixes' = visited_prefixes \cup {p}
                    /\ queryLog' = queryLog
                    /\ names' = names
                    /\ request_count' = request_count
                    /\ pc' = "run"
                    /\ \A i \in 1..Len(stack') : stack'[i].prefix # p
            /\ p = <<" ">> => (Len(queryLog') = Len(queryLog) + 1
                               /\ queryLog'[Len(queryLog')].prefix = p)]_vars

\* The single space was queried; " a" and "  " are visited and were not.
C8_Witness ==
    /\ <<" ">> \in Queried
    /\ {<<" ", "a">>, <<" ", " ">>, <<"a", " ">>} \subseteq visited_prefixes
    /\ Queried \cap {<<" ", "a">>, <<" ", " ">>, <<"a", " ">>} = {}

(* C9 as claimed: whatever the service answers, extract_names does not
   abort, and only prefixes of at most MaxPrefixLength characters of the
   character set are visited. *)
C9_NeverAborts ==
    /\ pc # "aborted"
    /\ \A p \in visited_prefixes :
        Len(p) <= MaxPrefixLength /\ Range(p) \subseteq Range(CharacterSet)

(* C10 as claimed: a crawler constructed after a failed or partial
   _save_checkpoint starts with no less progress than the last checkpoint
   that was written whole. *)
C10_CheckpointSurvives ==
    (JustConstructed /\ lastWhole.valid) =>
        /\ lastWhole.visited_prefixes \subseteq visited_prefixes
        /\ lastWhole.names \subseteq names
        /\ lastWhole.request_count <= request_count

(* C5 as claimed: with R requests per window allowed, the (i+R)-th
   timestamp a RateLimiter records is at least window_size seconds after
   the i-th, whatever time passes between the calls. *)
C5_WindowRespected ==
    \A i \in 1..Len(lRecorded) :
        i + lRpm <= Len(lRecorded) => lRecorded[i + lRpm] >= lRecorded[i] + window_size

\* The attempts of the returned call, and whether one of them was a 200
\* whose body has a recognized shape.
Attempt(i) == Nth(cScript, i)

RecognizedAnswer ==
    \E i \in 1..cResult.attempts :
        /\ Attempt(i).status = 200
        /\ \/ Attempt(i).body.type = "array"
           \/ /\ Attempt(i).body.type = "object"
              /\ DOMAIN Attempt(i).body.fields \cap {"results", "suggestions", "names"} # {}

(* C6 as claimed: get_autocomplete_suggestions always returns a list of
   strings, after at most max_retries + 1 attempts, and the list is empty
   when no attempt was answered 200 with a recognized shape. *)
C6_ClientTotal ==
    cPc = "returned" =>
        /\ cResult.value.type = "list"
        /\ cResult.attempts <= cMaxRetries + 1
        /\ ~RecognizedAnswer => cResult.value = ListVal(<<>>)

(* C7: every 429 that is answered while budget remains is followed by a
   sleep of the seconds its Retry-After header gives when that is a string
   of digits, and of retry_delay when the header is absent or not digits,
   and then by another attempt; a 200 that follows returns its body; a 429
   on the last attempt of the budget returns empty with no sleep after it. *)
C7_RetryAfter ==
    cPc = "returned" =>
        /\ \A i \in 1..cResult.attempts :
            Attempt(i).status = 429 =>
                IF i <= cMaxRetries
                THEN /\ i < cResult.attempts
                     /\ Len(cResult.sleeps) >= i
                     /\ LET h == Attempt(i).retry_after
                        IN  cResult.sleeps[i] =
                              CASE h = Header(<<"5">>)      -> 5
                                [] h = Header(<<"0">>)      -> 0
                                [] h = Header(<<"1", "2">>) -> 12
                                [] OTHER                    -> cRetryDelay
                ELSE /\ i = cResult.attempts
                     /\ cResult.value = ListVal(<<>>)
                     /\ Len(cResult.sleeps) = cMaxRetries
        /\ (Attempt(cResult.attempts).status = 200
            /\ Attempt(cResult.attempts).body.type = "array")
             => cResult.value = Attempt(cResult.attempts).body.value

\* Budget 1, a 429 with Retry-After: 5, then 200 ["x","y"]: the call
\* returned ["x","y"] after sleeping 5 seconds between the two attempts.
C7_Witness ==
    /\ cPc = "returned" /\ cMaxRetries = 1
    /\ cScript = <<Response(429, ScalarBody, Header(<<"5">>)),
                   Ok(ArrayBody(ListVal(<<<<"x">>, <<"y">>>>)))>>
    /\ cResult.value = ListVal(<<<<"x">>, <<"y">>>>)
    /\ cResult.sleeps = <<5>>
    /\ cResult.attempts = 2

(* C11 as claimed: when main() was interrupted while the crawler ran, the
   process exits only after the crawler has performed the final
   _save_checkpoint of extract_names. *)
C11_InterruptedCrawlerSaves == (exited /\ interruptedAt >= 0) => pc = "done"

(* C12 as claimed: whatever list of identifiers main() is handed, no two
   workers have the same checkpoint or results file open for writing at
   the same time, and no two workers use the same extractor object. *)
C12_WorkersIsolated ==
    \A i, j \in 1..Len(workers) :
        i # j =>
            /\ OpenForWriting(workers[i]) \cap OpenForWriting(workers[j]) = {}
            /\ (workers[i].crawler # 0 => workers[i].crawler # workers[j].crawler)

(* C13: in every step of a crawl (a query, a prefix that is skipped or
   rejected, a checkpoint save, the construction over a checkpoint) names
   and visited_prefixes keep every member they had and request_count does
   not decrease; only the end of the process empties its memory. *)
C13_StateGrows ==
    [][pc' # "down" =>
         /\ names \subseteq names'
         /\ visited_prefixes \subseteq visited_prefixes'
         /\ request_count <= request_count']_vars

\* A finished crawl that found names with several queries, saved a
\* checkpoint and called _dfs on a prefix that was visited already.
C13_Witness ==
    /\ pc = "done" /\ names # {} /\ request_count > CheckpointEvery
    /\ persisted.valid
    /\ \E c \in calls : c[1] \o Str(CharacterSet[c[2]]) = c[1]

\* The members of a visited set that were sent to the service: those with
\* no two consecutive spaces and, when longer than one character, with no
\* space at either end.
SentOf(S) ==
    {p \in S : /\ ~\E i \in 1..(Len(p) - 1) : p[i] = " " /\ p[i + 1] = " "
               /\ ~(Len(p) > 1 /\ (p[1] = " " \/ p[Len(p)] = " "))}

(* C14: while extract_names runs or has returned, between two steps of it,
   request_count is the number of visited prefixes that pass the filters
   of _dfs, in a crawl started empty and in one restored from a checkpoint;
   every checkpoint file that is whole holds a request_count equal to the
   number of its visited prefixes that pass the filters. *)
C14_CountMatchesQueried ==
    /\ pc \in {"run", "final", "done"} =>
           request_count = Cardinality(SentOf(visited_prefixes))
    /\ checkpoint.kind = "json" =>
           checkpoint.request_count = Cardinality(SentOf(Range(checkpoint.visited_prefixes)))

\* A crawl restored from a checkpoint has queried again and completed; its
\* visited set holds rejected prefixes beside the queried ones.
C14_Witness ==
    /\ pc = "done" /\ basis.valid /\ basis.request_count > 0 /\ queryLog # <<>>
    /\ SentOf(visited_prefixes) # visited_prefixes
    /\ request_count > basis.request_count

(* C15 as claimed: a crawl that was stopped after a checkpoint was saved
   and was resumed from it, against the same service answering every
   query with its page, completes with the names the uninterrupted crawl
   ends with. *)
C15_RestartSafe ==
    (pc = "done" /\ basis.valid /\ faults = MaxFaults - 1)
        => names = UninterruptedNames(vocab, version)

\* The position of a character in the list get_character_set() returns.
SetIndex(c) == CHOOSE i \in 1..Len(GetCharacterSet(version)) : GetCharacterSet(version)[i] = c

\* s comes before t in the pre-order walk of the prefix tree whose
\* children are in character-set order: s is a proper prefix of t, or at
\* the first position where they differ s has the earlier character.
RECURSIVE PreOrderLess(_, _)
PreOrderLess(s, t) ==
    IF s = <<>> THEN t # <<>>
    ELSE IF t = <<>> THEN FALSE
    ELSE IF Head(s) = Head(t) THEN PreOrderLess(Tail(s), Tail(t))
    ELSE SetIndex(Head(s)) < SetIndex(Head(t))

\* The empty prefix is the top-level prefix of the member '' of the set.
TreeKey(p) == IF p = <<>> THEN <<"">> ELSE p

\* Every queried prefix is made of characters of the set, and the empty
\* prefix is queried only when '' is a member.
OverCharacterSet ==
    \A i \in 1..Len(queryLog) :
        /\ Range(queryLog[i].prefix) \subseteq Range(GetCharacterSet(version)) \ {""}
        /\ queryLog[i].prefix = <<>> => "" \in Range(GetCharacterSet(version))

(* C16 as claimed: the queries of a crawl are in strict pre-order: every
   prefix, the empty one included, before each of its extensions, and the
   subtrees of the characters in character-set order. *)
C16_PreOrder ==
    /\ OverCharacterSet
    /\ \A i, j \in 1..Len(queryLog) :
          i < j => PreOrderLess(queryLog[i].prefix, queryLog[j].prefix)

(* C16 amended: the queries of a crawl are in pre-order with the empty
   prefix taken as the top-level prefix of the member '': every non-empty
   prefix is queried before each of its extensions, the whole subtree of
   p + c before p + c' for a later character c', and the empty prefix at
   the position of '' in the set, after the subtrees of the characters
   before it. *)
C16_PreOrderOfTopLevel ==
    /\ OverCharacterSet
    /\ \A i, j \in 1..Len(queryLog) :
          i < j => PreOrderLess(TreeKey(queryLog[i].prefix), TreeKey(queryLog[j].prefix))

\* A finished v3 crawl that went two levels deep below one character,
\* queried a later character, and queried the empty prefix last.
C16_Witness ==
    /\ pc = "done" /\ Len(queryLog) >= 4
    /\ queryLog[Len(queryLog)].prefix = <<>>
    /\ \E i, j \in 1..Len(queryLog) :
          /\ i < j /\ Len(queryLog[i].prefix) = 2 /\ Len(queryLog[j].prefix) = 1

\* The checkpoint file that holds exactly the state in memory after the step.
WholeCheckpointOfNextState ==
    /\ checkpoint'.kind = "json"
    /\ Range(checkpoint'.names) = names'
    /\ Len(checkpoint'.names) = Cardinality(names')
    /\ Range(checkpoint'.visited_prefixes) = visited_prefixes'
    /\ Len(checkpoint'.visited_prefixes) = Cardinality(visited_prefixes')
    /\ checkpoint'.request_count = request_count'

(* C17: a query after which request_count is a multiple of 20 (the scaled
   CheckpointEvery) saves the checkpoint, and no other query touches the
   file; extract_names saves it once more at its end, in a step before the
   one that writes the results file; a save that meets no failure leaves
   exactly the names, visited_prefixes and request_count of memory in the
   file; total_names of the results file is the number of names it lists,
   which are the names in memory. *)
C17_CheckpointTiming ==
    /\ [][(Len(queryLog') = Len(queryLog) + 1 /\ pc' = "run") =>
            IF request_count' % CheckpointEvery = 0
            THEN /\ faults' = faults => WholeCheckpointOfNextState
                 /\ checkpoint' # checkpoint =>
                        WholeCheckpointOfNextState \/ checkpoint'.kind = "partial"
            ELSE checkpoint' = checkpoint]_vars
    /\ [][(pc = "run" /\ pc' = "final") =>
            /\ results' = results
            /\ faults' = faults => WholeCheckpointOfNextState]_vars
    /\ [][checkpoint' # checkpoint =>
            \/ Len(queryLog') = Len(queryLog) + 1 /\ pc' = "run"
            \/ pc = "run" /\ pc' \in {"final", "down"}]_vars
    /\ [][results' # results => (pc = "final" /\ pc' = "done")]_vars
    /\ [](results.kind = "json" =>
            /\ results.total_names = Len(results.names)
            /\ Range(results.names) = names
            /\ results.request_count = request_count)

\* A finished crawl that saved a periodic checkpoint, queried again, saved
\* the final checkpoint and wrote its results with the names it found.
C17_Witness ==
    /\ pc = "done" /\ results.kind = "json" /\ results.total_names >= 1
    /\ lastWhole.valid /\ request_count > CheckpointEvery
    /\ request_count % CheckpointEvery # 0
    /\ checkpoint.kind = "json" /\ checkpoint.request_count = request_count

(* C18 as claimed: an attempt answered with a status that is neither 200
   nor 429 is the last one, returns the empty list and is followed by no
   sleep, whatever budget is left; every attempt that is followed by
   another one was answered 429 or failed in transport. *)
C18_OnlyRetryable ==
    cPc = "returned" =>
        \A i \in 1..cResult.attempts :
            /\ Attempt(i).status \notin {200, 429, 0} =>
                  /\ i = cResult.attempts
                  /\ cResult.value = ListVal(<<>>)
                  /\ Len(cResult.sleeps) = i - 1
            /\ i < cResult.attempts => Attempt(i).status \in {429, 0}

(* C18 amended: an attempt answered with a status that is neither 200 nor
   429 is the last one, returns the empty list and is followed by no
   sleep, whatever budget is left; every attempt that is followed by
   another one was answered 429, failed in transport, or was answered 200
   with a body that is not JSON. *)
C18_RetriesOnlyOnFailure ==
    cPc = "returned" =>
        \A i \in 1..cResult.attempts :
            /\ Attempt(i).status \notin {200, 429, 0} =>
                  /\ i = cResult.attempts
                  /\ cResult.value = ListVal(<<>>)
                  /\ Len(cResult.sleeps) = i - 1
            /\ i < cResult.attempts =>
                  \/ Attempt(i).status \in {429, 0}
                  \/ Attempt(i).status = 200 /\ Attempt(i).body.type = "invalid"

\* With the default budget of 3 retries a first answer of status 500 made
\* the call return the empty list after one attempt and no sleep.
C18_Witness ==
    /\ cPc = "returned" /\ cMaxRetries = default_max_retries
    /\ cScript = <<Response(500, ScalarBody, NoHeader)>>
    /\ cResult = [value |-> ListVal(<<>>), attempts |-> 1, sleeps |-> <<>>]

(* C19 as claimed: a crawler constructed over a checkpoint file whose
   load fails (cut short, or with a field of the wrong type) starts with
   names and visited_prefixes empty and request_count 0. *)
C19_FailedLoadStartsEmpty ==
    (JustConstructed /\ checkpoint.kind \notin {"none", "json"}) =>
        /\ names = {}
        /\ visited_prefixes = {}
        /\ request_count = 0

(* C20 as claimed: after the interrupt the crawler starts at most the one
   query that was due and no later one. *)
C20_StopsAfterInterrupt == interruptedAt >= 0 => Len(queryLog) <= interruptedAt + 1

====
